---- MODULE Spec2Model ----
(***************************************************************************)
(* BBData (src/BBData/BBData.js, second definition, lines 574-1256):       *)
(* one JSON-like document addressed by dot-separated paths, with DOM       *)
(* bindings and observers that are notified on set / move / delete.        *)
(*                                                                         *)
(* JavaScript values are tagged records, paths are strings and are split,  *)
(* joined, parsed and prefix-matched character by character as the code    *)
(* does.  Observer callbacks and DOM writes are recorded in `log`.         *)
(***************************************************************************)
EXTENDS Integers, Sequences, FiniteSets, TLC

\* ------------------------------------------------------------------ bounds
\* longest array the model lets a call grow
MaxLen == 3
\* most binding records in the registry at once
MaxBindings == 1
\* most observer registrations in the registry at once
MaxObservers == 3

\* ------------------------------------------------------- JavaScript values
Undefined == [t |-> "undefined"]
Null == [t |-> "null"]
Str(p) == [t |-> "string", p |-> p]
Bool(b) == [t |-> "boolean", b |-> b]
\* a plain object: m maps own keys to values
Obj(m) == [t |-> "object", m |-> m]
\* an array: s holds the indexed elements (Undefined marks a hole),
\* x the own properties that are not array indices
Arr(s, x) == [t |-> "array", s |-> s, x |-> x]
EmptyMap == [k \in {} |-> Null]
EmptyObj == Obj(EmptyMap)
List(s) == Arr(s, EmptyMap)

\* f with key k set to v
Put(f, k, v) == [j \in DOMAIN f \cup {k} |-> IF j = k THEN v ELSE f[j]]
\* f without key k
Drop(f, k) == [j \in DOMAIN f \ {k} |-> f[j]]

\* JavaScript truthiness (value && ...)
Truthy(v) ==
    CASE v.t = "undefined" -> FALSE
      [] v.t = "null" -> FALSE
      [] v.t = "string" -> v.p # ""
      [] v.t = "boolean" -> v.b
      [] OTHER -> TRUE

\* a === b: primitives by value; two composites are only identical when
\* they are the same object, which two separately built values never are
StrictEquals(a, b) ==
    /\ a.t = b.t
    /\ CASE a.t = "string" -> a.p = b.p
         [] a.t = "boolean" -> a.b = b.b
         [] a.t \in {"null", "undefined"} -> TRUE
         [] OTHER -> FALSE

\* ------------------------------------------------------------------ strings
Char(str, i) == SubSeq(str, i, i)

DigitValue(ch) ==
    CASE ch = "0" -> 0 [] ch = "1" -> 1 [] ch = "2" -> 2 [] ch = "3" -> 3
      [] ch = "4" -> 4 [] ch = "5" -> 5 [] ch = "6" -> 6 [] ch = "7" -> 7
      [] ch = "8" -> 8 [] ch = "9" -> 9 [] OTHER -> -1

DigitChar(d) ==
    CASE d = 0 -> "0" [] d = 1 -> "1" [] d = 2 -> "2" [] d = 3 -> "3"
      [] d = 4 -> "4" [] d = 5 -> "5" [] d = 6 -> "6" [] d = 7 -> "7"
      [] d = 8 -> "8" [] OTHER -> "9"

\* String(n) for an integer n
RECURSIVE NatToString(_)
NatToString(n) ==
    IF n < 10 THEN DigitChar(n)
    ELSE NatToString(n \div 10) \o DigitChar(n % 10)

NumberToString(n) == IF n < 0 THEN "-" \o NatToString(0 - n) ELSE NatToString(n)

\* the digits of str from position i on, folded into acc; count of digits read
RECURSIVE ParseDigits(_, _, _, _)
ParseDigits(str, i, acc, cnt) ==
    IF i > Len(str) \/ DigitValue(Char(str, i)) < 0
    THEN [n |-> acc, cnt |-> cnt]
    ELSE ParseDigits(str, i + 1, acc * 10 + DigitValue(Char(str, i)), cnt + 1)

\* parseInt(str, 10): optional sign, then the longest run of digits;
\* NaN when there is no digit
parseInt(str) ==
    LET neg == Len(str) > 0 /\ Char(str, 1) = "-"
        signed == Len(str) > 0 /\ Char(str, 1) \in {"-", "+"}
        r == ParseDigits(str, IF signed THEN 2 ELSE 1, 0, 0)
    IN  IF r.cnt = 0 THEN [nan |-> TRUE, n |-> 0]
        ELSE [nan |-> FALSE, n |-> IF neg THEN 0 - r.n ELSE r.n]

\* a property key that addresses an array element: the canonical decimal
\* form of a non-negative integer ("1", not "01", "-1" or "x")
IsArrayIndex(key) ==
    LET r == parseInt(key)
    IN  ~r.nan /\ r.n >= 0 /\ NumberToString(r.n) = key

\* str.split(".")
RECURSIVE SplitFrom(_, _, _)
SplitFrom(str, i, cur) ==
    IF i > Len(str) THEN <<cur>>
    ELSE IF Char(str, i) = "." THEN <<cur>> \o SplitFrom(str, i + 1, "")
    ELSE SplitFrom(str, i + 1, cur \o Char(str, i))

Split(str) == SplitFrom(str, 1, "")

\* parts.join(".")
RECURSIVE Join(_)
Join(parts) ==
    IF Len(parts) = 0 THEN ""
    ELSE IF Len(parts) = 1 THEN parts[1]
    ELSE parts[1] \o "." \o Join(Tail(parts))

\* parts.pop()
Pop(parts) == SubSeq(parts, 1, Len(parts) - 1)

\* path.indexOf(prefix) == 0
StartsWith(path, prefix) ==
    /\ Len(prefix) <= Len(path)
    /\ SubSeq(path, 1, Len(prefix)) = prefix

\* ------------------------------------------------------- property access
isObject(v) == v.t \in {"object", "array"}

isArray(v) == v.t = "array"

\* v[key] for a value v that is not null or undefined
GetProp(v, key) ==
    CASE v.t = "object" -> IF key \in DOMAIN v.m THEN v.m[key] ELSE Undefined
      [] v.t = "array" ->
            IF IsArrayIndex(key)
            THEN IF parseInt(key).n < Len(v.s) THEN v.s[parseInt(key).n + 1]
                 ELSE Undefined
            ELSE IF key \in DOMAIN v.x THEN v.x[key] ELSE Undefined
      [] v.t = "string" ->
            IF IsArrayIndex(key) /\ parseInt(key).n < Len(v.p)
            THEN Str(Char(v.p, parseInt(key).n + 1))
            ELSE Undefined
      [] OTHER -> Undefined

\* v[key] = val for an object or array v; writing past the end of an array
\* leaves holes
SetProp(v, key, val) ==
    IF v.t = "object" THEN Obj(Put(v.m, key, val))
    ELSE IF IsArrayIndex(key)
         THEN LET i == parseInt(key).n
              IN  Arr([j \in 1..(IF i + 1 > Len(v.s) THEN i + 1 ELSE Len(v.s)) |->
                          IF j = i + 1 THEN val
                          ELSE IF j <= Len(v.s) THEN v.s[j] ELSE Undefined],
                      v.x)
         ELSE Arr(v.s, Put(v.x, key, val))

\* prev.splice(start, deleteCount, ...items) on the indexed elements, with
\* start already converted to an integer
RelativeStart(len, start) ==
    IF start < 0 THEN (IF len + start < 0 THEN 0 ELSE len + start)
    ELSE IF start > len THEN len ELSE start

Splice(seq, start, deleteCount, items) ==
    LET from == RelativeStart(Len(seq), start)
        cnt == IF deleteCount > Len(seq) - from THEN Len(seq) - from ELSE deleteCount
    IN  SubSeq(seq, 1, from) \o items \o SubSeq(seq, from + cnt + 1, Len(seq))

\* ToIntegerOrInfinity(ToNumber(str)), the conversion splice applies to a
\* string start: the whole string must be a signed decimal, "" is 0 and
\* anything else is NaN, which becomes 0
ToInteger(str) ==
    LET signed == Len(str) > 0 /\ Char(str, 1) \in {"-", "+"}
        r == ParseDigits(str, IF signed THEN 2 ELSE 1, 0, 0)
        whole == r.cnt > 0 /\ r.cnt + (IF signed THEN 1 ELSE 0) = Len(str)
    IN  IF ~whole THEN 0
        ELSE IF Char(str, 1) = "-" THEN 0 - r.n ELSE r.n

\* ------------------------------------------------------------ PathAccessor
\* the reduce callback of get, applied to the remaining segments
RECURSIVE getReduce(_, _, _)
getReduce(value, parts, allowUndefined) ==
    IF Len(parts) = 0 THEN value
    ELSE getReduce(
            IF Truthy(value) /\ GetProp(value, parts[1]).t # "undefined"
            THEN GetProp(value, parts[1])
            ELSE (IF allowUndefined THEN Undefined ELSE Null),
            Tail(parts), allowUndefined)

\* get(key, allowUndefined); key "" stands for every falsy key (null, "")
get(data, key, allowUndefined) ==
    IF key = "" THEN data
    ELSE getReduce(data, Split(key), allowUndefined)

getParentPath(path) == Join(Pop(Split(path)))

\* getParentValue: the parent path of a top-level path is null, the document
getParentValue(data, path) == get(data, Join(Pop(Split(path))), FALSE)

isInArray(data, path) == isArray(getParentValue(data, path))

\* --------------------------------------------------------- instance state
\* DOM elements handed to bind; NoElement stands for "no element argument"
Elements == {"e1"}
NoElement == ""

\* An instance `self` is a record
\*   data        the document
\*   bindings    path -> attribute -> sequence of [element, options, handler]
\*   observables key -> sequence of [callback, context]
\*   dom         element -> [props, attrs, listeners]: the element's live
\*               properties, its attributes, and its attached listeners in
\*               the order they were added; a listener is the handler bind
\*               made (a number stands for the function) with the path,
\*               attribute and options its closure holds
\*   log         the DOM writes and observer calls of the running call
\*   notes       the notify rounds of the running call: the arguments of
\*               each and the document as it was then
\*   n           the number of the running notify round

\* two statements in sequence: next applied to the instance as the first
\* statement left it, unless that statement threw
Then(first, next(_)) ==
    CHOOSE after \in {IF s1.threw THEN s1 ELSE next(s1) : s1 \in {first}} : TRUE

\* a property key made from a path: null becomes the key "null"
Key(path) == IF path.t = "null" THEN "null" ELSE path.p

\* the keys a for-in loop visits: own enumerable keys (holes of an array are
\* skipped); the order among them is fixed but arbitrary here
RECURSIVE SetToSeq(_)
SetToSeq(S) ==
    IF S = {} THEN <<>>
    ELSE LET k == CHOOSE k \in S : TRUE IN <<k>> \o SetToSeq(S \ {k})

RECURSIVE IndexKeys(_, _)
IndexKeys(seq, i) ==
    IF i > Len(seq) THEN <<>>
    ELSE (IF seq[i].t = "undefined" THEN <<>> ELSE <<NumberToString(i - 1)>>)
         \o IndexKeys(seq, i + 1)

ForIn(v) ==
    IF v.t = "object" THEN SetToSeq(DOMAIN v.m)
    ELSE IndexKeys(v.s, 1) \o SetToSeq(DOMAIN v.x)

\* typeof(element[attribute]) !== "undefined"
isProperty(dom, attribute, element) == attribute \in DOMAIN dom[element].props

\* String(v) for the values that a == b converts to a string: an array is
\* its elements joined by commas, null and undefined elements as ""
RECURSIVE ToStringValue(_)
RECURSIVE JoinElements(_)
JoinElements(seq) ==
    IF Len(seq) = 0 THEN ""
    ELSE (IF seq[1].t \in {"null", "undefined"} THEN "" ELSE ToStringValue(seq[1]))
         \o (IF Len(seq) = 1 THEN "" ELSE "," \o JoinElements(Tail(seq)))

ToStringValue(v) ==
    CASE v.t = "string" -> v.p
      [] v.t = "null" -> "null"
      [] v.t = "undefined" -> "undefined"
      [] v.t = "boolean" -> IF v.b THEN "true" ELSE "false"
      [] v.t = "array" -> JoinElements(v.s)
      [] OTHER -> "[object Object]"

\* a == b where b is a string, null or undefined: null and undefined equal
\* each other and nothing else, a composite is compared as a string, and a
\* boolean never equals a string that is not a number
LooseEquals(a, b) ==
    IF b.t \in {"null", "undefined"} THEN a.t \in {"null", "undefined"}
    ELSE CASE a.t = "string" -> a.p = b.p
           [] a.t \in {"object", "array"} -> ToStringValue(a) = b.p
           [] a.t = "boolean" -> ~a.b /\ b.p = ""
           [] OTHER -> FALSE

\* an option of a binding that is there and truthy: boolean and
\* negateBoolean are TRUE or FALSE, the conditions are values
Configured(options, name) ==
    /\ name \in DOMAIN options
    /\ IF name \in {"boolean", "negateBoolean"} THEN options[name]
       ELSE Truthy(options[name])

isBooleanAttribute(attribute) ==
    attribute \in {"allowfullscreen", "async", "autofocus", "checked", "compact",
                   "contenteditable", "declare", "default", "defer", "disabled",
                   "formnovalidate", "hidden", "inert", "ismap", "itemscope",
                   "multiple", "muted", "nohref", "noresize", "noshade",
                   "novalidate", "nowrap", "open", "readonly", "required",
                   "reversed", "seamless", "selected", "sortable", "spellcheck",
                   "truespeed", "typemustmatch"}

\* options.valueTransformer, when a binding has one: an object whose
\* transformedValue shows a string with "$" before it and whose
\* reverseTransformedValue takes a leading "$" away
HasValueTransformer(options) == "valueTransformer" \in DOMAIN options

transformedValue(value) ==
    IF value.t = "string" THEN Str("$" \o value.p) ELSE value

reverseTransformedValueKeepingSign(value) == value

reverseTransformedValue(value) ==
    IF value.t = "string" /\ StartsWith(value.p, "$")
    THEN Str(SubSeq(value.p, 2, Len(value.p)))
    ELSE value

\* the value of the data as the element is to show it: the first of the
\* options valueTransformer, boolean, negateBoolean, booleanCondition and
\* negateBooleanCondition that is there and truthy decides
ModifiedValue(options, value) ==
    IF HasValueTransformer(options) THEN transformedValue(value)
    ELSE IF Configured(options, "boolean") THEN Bool(Truthy(value))
    ELSE IF Configured(options, "negateBoolean") THEN Bool(~Truthy(value))
    ELSE IF Configured(options, "booleanCondition")
         THEN Bool(LooseEquals(value, options.booleanCondition))
    ELSE IF Configured(options, "negateBooleanCondition")
         THEN Bool(~LooseEquals(value, options.negateBooleanCondition))
    ELSE value

\* element[attribute] = value when the element has the property, and
\* element.setAttribute(attribute, value) when it has not; the element keeps
\* what it is given
Write(dom, element, attribute, value) ==
    IF isProperty(dom, attribute, element)
    THEN [dom EXCEPT ![element].props = Put(@, attribute, value)]
    ELSE [dom EXCEPT ![element].attrs = Put(@, attribute, value)]

WriteAbsentKeepingAttribute(dom, element, attribute, value) ==
    IF isProperty(dom, attribute, element)
    THEN [dom EXCEPT ![element].props = Put(@, attribute, value)]
    ELSE dom

\* the falsy value of a boolean attribute: the property, when there is one,
\* is given the value and the attribute is removed
WriteAbsent(dom, element, attribute, value) ==
    [(IF isProperty(dom, attribute, element)
      THEN [dom EXCEPT ![element].props = Put(@, attribute, value)]
      ELSE dom)
     EXCEPT ![element].attrs = Drop(@, attribute)]

\* one element of the loop of updateBoundElementsForPathAndAttribute: the
\* value is transformed as the options of the binding say; a boolean
\* attribute is written as its own name when the value is truthy and removed
\* when it is not; every other attribute is written as the value
UpdateElement(self, path, attribute, value, binding) ==
    LET e == binding.element
        modifiedValue == ModifiedValue(binding.options, value)
        written == IF isBooleanAttribute(attribute) /\ Truthy(modifiedValue)
                   THEN Str(attribute)
                   ELSE modifiedValue
        d == IF isBooleanAttribute(attribute) /\ ~Truthy(modifiedValue)
             THEN WriteAbsent(self.dom, e, attribute, modifiedValue)
             ELSE Write(self.dom, e, attribute, written)
    IN  [self EXCEPT
            !.dom = d,
            !.log = Append(@, [kind |-> "bind", n |-> self.n, path |-> Str(path),
                               changedPath |-> Str(path), value |-> written,
                               action |-> "", element |-> e,
                               attribute |-> attribute, callback |-> ""])]

RECURSIVE UpdateElementsFrom(_, _, _, _, _)
UpdateElementsFrom(self, path, attribute, value, i) ==
    IF i > Len(self.bindings[path][attribute]) THEN self
    ELSE UpdateElementsFrom(
            UpdateElement(self, path, attribute, value, self.bindings[path][attribute][i]),
            path, attribute, value, i + 1)

updateBoundElementsForPathAndAttribute(self, path, attribute, value) ==
    IF path \notin DOMAIN self.bindings THEN self
    ELSE IF attribute \notin DOMAIN self.bindings[path] THEN self
    ELSE UpdateElementsFrom(self, path, attribute, value, 1)

RECURSIVE UpdateAttributes(_, _, _, _)
UpdateAttributes(self, path, attributes, value) ==
    IF Len(attributes) = 0 THEN self
    ELSE UpdateAttributes(
            updateBoundElementsForPathAndAttribute(self, path, attributes[1], value),
            path, Tail(attributes), value)

updateBoundElementsForPath(self, path, value) ==
    IF path \notin DOMAIN self.bindings THEN self
    ELSE UpdateAttributes(self, path, SetToSeq(DOMAIN self.bindings[path]), value)

\* updateBoundElementsAtPathRecursivly, and the for-in loop that calls it
\* for every key of a composite value
RECURSIVE updateBoundElementsAtPathRecursivly(_, _, _)
RECURSIVE UpdateKeys(_, _, _, _)
updateBoundElementsAtPathOnly(self, path, value) ==
    IF path \in DOMAIN self.bindings
    THEN UpdateAttributes(self, path, SetToSeq(DOMAIN self.bindings[path]), value)
    ELSE self

UpdateKeys(self, path, value, keys) ==
    IF Len(keys) = 0 THEN self
    ELSE UpdateKeys(
            updateBoundElementsAtPathRecursivly(self, path \o "." \o keys[1],
                                                GetProp(value, keys[1])),
            path, value, Tail(keys))

updateBoundElementsAtPathRecursivly(self, path, value) ==
    LET s1 == IF path \in DOMAIN self.bindings
              THEN UpdateAttributes(self, path, SetToSeq(DOMAIN self.bindings[path]), value)
              ELSE self
    IN  IF isObject(value) THEN UpdateKeys(s1, path, value, ForIn(value)) ELSE s1

updateBoundElementsAtPath(self, path, value) ==
    IF ~isObject(value) THEN self
    ELSE UpdateKeys(self, path, value, ForIn(value))

\* ------------------------------------- SubscriberRegistry: registrations
\* unbindAll(optionalPath): the listener of every binding of every path
\* that starts with optionalPath is removed, then the path is dropped
DetachKeepingListener(self, path, attribute, binding) ==
    [self EXCEPT
        !.log = Append(@, [kind |-> "detach", n |-> self.n, path |-> Str(path),
                           changedPath |-> Str(path), value |-> Undefined,
                           action |-> "", element |-> binding.element,
                           attribute |-> attribute, callback |-> ""])]

Detach(self, path, attribute, binding) ==
    [self EXCEPT
        !.dom = [@ EXCEPT ![binding.element].listeners =
                    SelectSeq(@, LAMBDA l : l.event # binding.options.event
                                            \/ l.handler # binding.handler)],
        !.log = Append(@, [kind |-> "detach", n |-> self.n, path |-> Str(path),
                           changedPath |-> Str(path), value |-> Undefined,
                           action |-> "", element |-> binding.element,
                           attribute |-> attribute, callback |-> ""])]

RECURSIVE DetachAll(_, _, _, _)
DetachAll(self, path, attribute, list) ==
    IF Len(list) = 0 THEN self
    ELSE DetachAll(Detach(self, path, attribute, list[1]), path, attribute, Tail(list))

RECURSIVE DetachAttributes(_, _, _)
DetachAttributes(self, path, attributes) ==
    IF Len(attributes) = 0 THEN self
    ELSE DetachAttributes(
            DetachAll(self, path, attributes[1], self.bindings[path][attributes[1]]),
            path, Tail(attributes))

RECURSIVE DetachPaths(_, _)
DetachPaths(self, paths) ==
    IF Len(paths) = 0 THEN self
    ELSE DetachPaths(
            DetachAttributes(self, paths[1], SetToSeq(DOMAIN self.bindings[paths[1]])),
            Tail(paths))

unbindAllExact(self, optionalPath) ==
    LET gone == {p \in DOMAIN self.bindings : p = optionalPath}
    IN  [DetachPaths(self, SetToSeq(gone)) EXCEPT
            !.bindings = [p \in DOMAIN self.bindings \ gone |-> self.bindings[p]]]

unbindAll(self, optionalPath) ==
    LET gone == {p \in DOMAIN self.bindings : StartsWith(p, optionalPath)}
    IN  [DetachPaths(self, SetToSeq(gone)) EXCEPT
            !.bindings = [p \in DOMAIN self.bindings \ gone |-> self.bindings[p]]]

\* observe(path, callback): a falsy path (null, "") is stored under null
observe(self, path, callback) ==
    LET key == IF path.t = "null" \/ path.p = "" THEN "null" ELSE path.p
        list == IF key \in DOMAIN self.observables THEN self.observables[key] ELSE <<>>
    IN  [self EXCEPT !.observables =
            Put(@, key, Append(list, [callback |-> callback, context |-> Null]))]

\* unobserve(path): empties the list stored under the key, which stays
unobserve(self, path) ==
    IF Key(path) \notin DOMAIN self.observables THEN self
    ELSE [self EXCEPT !.observables = Put(@, Key(path), <<>>)]

\* unobserveAll(optionalPath): every key that starts with optionalPath is
\* emptied and dropped; no argument is the prefix ""
unobserveAllExact(self, optionalPath) ==
    [self EXCEPT !.observables =
        [k \in {j \in DOMAIN self.observables : j # optionalPath} |->
            self.observables[k]]]

unobserveAll(self, optionalPath) ==
    [self EXCEPT !.observables =
        [k \in {j \in DOMAIN self.observables : ~StartsWith(j, optionalPath)} |->
            self.observables[k]]]

\* remove(): both registries are emptied and the document is let go
removeRegistriesOnly(self) ==
    [self EXCEPT !.observables = EmptyMap, !.bindings = EmptyMap, !.data = Null]

remove(self) ==
    [unbindAll(unobserveAll(self, ""), "") EXCEPT !.data = Null]

\* ---------------------------------------------------- NotificationRouter
\* what an observer callback does with the instance when it is called with
\* a notification: the callbacks named calls... call back into the instance
\* with the path of their notification, every other callback leaves it alone
RECURSIVE delete(_, _)
RunCallback(self, callback, path) ==
    CASE callback = "callsObserve" -> observe(self, path, "added")
      [] callback = "callsUnobserve" -> unobserve(self, path)
      [] callback = "callsUnbindAll" -> unbindAll(self, path.p)
      [] callback = "callsDelete" -> delete(self, path.p)
      [] callback = "callsRemove" -> remove(self)
      [] OTHER -> self

\* notifyObserversForPath: path is null or a string. The loop reads
\* self.observables[path].length before every turn, from the list as it is
\* then; when the key is gone the read throws a TypeError
RECURSIVE NotifyFrom(_, _, _, _, _, _, _)
NotifyFrom(self, path, value, changedPath, action, element, i) ==
    IF Key(path) \notin DOMAIN self.observables THEN [self EXCEPT !.threw = TRUE]
    ELSE IF i > Len(self.observables[Key(path)]) THEN self
    ELSE LET callback == self.observables[Key(path)][i].callback
             called == [self EXCEPT !.log = Append(@,
                          [kind |-> "observer", n |-> self.n, path |-> path,
                           changedPath |-> Str(changedPath), value |-> value,
                           action |-> action, element |-> element, attribute |-> "",
                           callback |-> callback])]
         IN  Then(Then(called, LAMBDA s1 :
                          [RunCallback(s1, callback, path) EXCEPT !.n = s1.n]),
                  LAMBDA s2 : NotifyFrom(s2, path, value, changedPath, action,
                                         element, i + 1))

notifyObserversForPath(self, path, value, changedPath, action, element) ==
    IF Key(path) \notin DOMAIN self.observables THEN self
    ELSE NotifyFrom(self, path, value, changedPath, action, element, 1)

\* the while loop of notifyObserversFromPath over the remaining parts
RECURSIVE NotifyParents(_, _, _, _, _)
RECURSIVE NotifyParentsWithChangedValue(_, _, _, _, _)
NotifyParentsWithChangedValue(self, parts, path, action, element) ==
    IF Len(parts) = 0 THEN self
    ELSE LET currentPath == Join(parts)
             s1 == IF currentPath \in DOMAIN self.observables
                   THEN notifyObserversForPath(self, Str(currentPath),
                            get(self.data, path, FALSE), path, action, element)
                   ELSE self
         IN  NotifyParentsWithChangedValue(s1, Pop(parts), path, action, element)

NotifyParents(self, parts, path, action, element) ==
    IF Len(parts) = 0 THEN self
    ELSE LET currentPath == Join(parts)
         IN  Then(IF currentPath \in DOMAIN self.observables
                  THEN notifyObserversForPath(self, Str(currentPath),
                           get(self.data, currentPath, FALSE), path, action, element)
                  ELSE self,
                  LAMBDA s1 : NotifyParents(s1, Pop(parts), path, action, element))

notifyObserversFromPathRootFirst(self, path, action, element) ==
    NotifyParents(
        notifyObserversForPath(self, Null, get(self.data, "", FALSE), path, action, element),
        Pop(Split(path)), path, action, element)

notifyObserversFromPath(self, path, action, element) ==
    Then(NotifyParents(self, Pop(Split(path)), path, action, element),
         LAMBDA s1 : notifyObserversForPath(s1, Null, get(s1.data, "", FALSE),
                                            path, action, element))

notifyObserversFirst(self, path, value, action, element) ==
    LET s0 == [self EXCEPT !.n = Len(self.notes) + 1,
                           !.notes = Append(@, [path |-> path, value |-> value,
                                                action |-> action, element |-> element,
                                                data |-> self.data])]
        s1 == IF path \in DOMAIN s0.observables
              THEN notifyObserversForPath(s0, Str(path), value, path, action, element)
              ELSE s0
        s2 == notifyObserversFromPath(s1, path, action, element)
    IN  updateBoundElementsAtPath(updateBoundElementsForPath(s2, path, value), path, value)

notify(self, path, value, action, element) ==
    LET s0 == [self EXCEPT !.n = Len(self.notes) + 1,
                           !.notes = Append(@, [path |-> path, value |-> value,
                                                action |-> action, element |-> element,
                                                data |-> self.data])]
    IN  Then(Then(Then(Then(s0,
            LAMBDA s1 : updateBoundElementsForPath(s1, path, value)),
            LAMBDA s2 : updateBoundElementsAtPath(s2, path, value)),
            LAMBDA s3 : IF path \in DOMAIN s3.observables
                        THEN notifyObserversForPath(s3, Str(path), value, path,
                                                    action, element)
                        ELSE s3),
            LAMBDA s4 : notifyObserversFromPath(s4, path, action, element))

\* ------------------------------------------------------ SubscriberRegistry
\* the handlers bind has created that are still referenced by the registry
\* or attached to an element; a new closure differs from all of them
RECURSIVE SeqHandlers(_)
SeqHandlers(list) ==
    IF Len(list) = 0 THEN {} ELSE {list[1].handler} \cup SeqHandlers(Tail(list))

HandlersInUse(self) ==
    UNION {UNION {SeqHandlers(self.bindings[p][a]) : a \in DOMAIN self.bindings[p]} :
              p \in DOMAIN self.bindings}
    \cup UNION {{self.dom[e].listeners[i].handler : i \in 1..Len(self.dom[e].listeners)} :
                   e \in DOMAIN self.dom}

NewHandler(self) == CHOOSE h \in 1..(Cardinality(HandlersInUse(self)) + 1) :
                        h \notin HandlersInUse(self)

\* options as bind completes them: twoways defaults to true, event to "change"
DefaultOptions == [twoways |-> TRUE, event |-> "change"]

\* bind(domElement, path, attribute, options) for a single HTMLElement
bindWithoutUpdate(self, domElement, path, attribute, options) ==
    LET forPath == IF path \in DOMAIN self.bindings THEN self.bindings[path] ELSE EmptyMap
        list == IF attribute \in DOMAIN forPath THEN forPath[attribute] ELSE <<>>
        binding == [element |-> domElement, options |-> options,
                    handler |-> NewHandler(self)]
    IN  [self EXCEPT
             !.bindings = Put(@, path, Put(forPath, attribute, Append(list, binding))),
             !.dom = [@ EXCEPT ![domElement].listeners =
                        Append(@, [event |-> options.event, handler |-> binding.handler,
                                   path |-> path, attribute |-> attribute,
                                   options |-> options])]]

bind(self, domElement, path, attribute, options) ==
    LET forPath == IF path \in DOMAIN self.bindings THEN self.bindings[path] ELSE EmptyMap
        list == IF attribute \in DOMAIN forPath THEN forPath[attribute] ELSE <<>>
        binding == [element |-> domElement, options |-> options,
                    handler |-> NewHandler(self)]
        s1 == [self EXCEPT
                 !.bindings = Put(@, path, Put(forPath, attribute, Append(list, binding))),
                 !.dom = [@ EXCEPT ![domElement].listeners =
                            Append(@, [event |-> options.event, handler |-> binding.handler,
                                       path |-> path, attribute |-> attribute,
                                       options |-> options])]]
    IN  updateBoundElementsForPathAndAttribute(s1, path, attribute,
                                               get(s1.data, path, FALSE))

\* unbind(domElement, path, attribute) for a single HTMLElement: the loop
\* goes on at i + 1 after it has spliced the binding at i out of the list
RECURSIVE UnbindFrom(_, _, _, _, _)
UnbindFrom(self, domElement, path, attribute, i) ==
    IF i > Len(self.bindings[path][attribute]) THEN self
    ELSE LET list == self.bindings[path][attribute]
             binding == list[i]
         IN  Then(IF domElement = binding.element
                  THEN [Detach(self, path, attribute, binding) EXCEPT
                           !.bindings[path][attribute] = Splice(list, i - 1, 1, <<>>)]
                  ELSE self,
                  LAMBDA s1 : UnbindFrom(s1, domElement, path, attribute, i + 1))

unbind(self, domElement, path, attribute) ==
    IF path \notin DOMAIN self.bindings THEN self
    ELSE IF attribute \notin DOMAIN self.bindings[path] THEN self
    ELSE UnbindFrom(self, domElement, path, attribute, 1)

\* ---------------------------------------------------------- MutationEngine
\* the check that opens set: the new value is identical to the current one
IsIdenticalNever(data, path, value) == FALSE

IsIdentical(data, path, value) == StrictEquals(get(data, path, FALSE), value)

\* the key that set writes when the parent is an array: an index above
\* the length becomes the length, one below 0 becomes 0
ClampedKeyAboveOnly(prev, cur) ==
    LET index == parseInt(cur)
    IN  IF ~index.nan /\ index.n > Len(prev.s) THEN NumberToString(Len(prev.s)) ELSE cur

ClampedKey(prev, cur) ==
    LET index == parseInt(cur)
    IN  IF ~index.nan /\ index.n > Len(prev.s) THEN NumberToString(Len(prev.s))
        ELSE IF ~index.nan /\ index.n < 0 THEN "0"
        ELSE cur

RECURSIVE setReduceInserting(_, _, _)
setReduceInserting(prev, parts, value) ==
    IF Len(parts) = 1
    THEN LET cur == IF isArray(prev) THEN ClampedKey(prev, parts[1]) ELSE parts[1]
         IN  [v |-> IF isArray(prev) /\ IsArrayIndex(cur)
                    THEN Arr(Splice(prev.s, parseInt(cur).n, 0, <<value>>), prev.x)
                    ELSE SetProp(prev, cur, value),
              cur |-> cur,
              isNew |-> GetProp(prev, cur).t = "undefined",
              inArray |-> isArray(prev)]
    ELSE LET child == GetProp(prev, parts[1])
             r == setReduceInserting(IF isObject(child) THEN child ELSE EmptyObj,
                                     Tail(parts), value)
         IN  [r EXCEPT !.v = SetProp(prev, parts[1], r.v)]

RECURSIVE setReduceKeepingIntermediates(_, _, _)
setReduceKeepingIntermediates(prev, parts, value) ==
    IF Len(parts) = 1
    THEN LET cur == IF isArray(prev) THEN ClampedKey(prev, parts[1]) ELSE parts[1]
         IN  [v |-> SetProp(prev, cur, value), cur |-> cur,
              isNew |-> GetProp(prev, cur).t = "undefined",
              inArray |-> isArray(prev)]
    ELSE LET child == GetProp(prev, parts[1])
             r == setReduceKeepingIntermediates(
                      IF isObject(child) THEN child ELSE EmptyObj, Tail(parts), value)
         IN  [r EXCEPT !.v = IF isObject(child) THEN SetProp(prev, parts[1], r.v)
                             ELSE prev]

\* the reduce of set over the remaining parts of the path, from prev:
\* v is prev after the write, cur the key written, isNew whether it was
\* undefined before, inArray whether the last parent is an array
RECURSIVE setReduce(_, _, _)
setReduce(prev, parts, value) ==
    IF Len(parts) = 1
    THEN LET cur == IF isArray(prev) THEN ClampedKey(prev, parts[1]) ELSE parts[1]
         IN  [v |-> SetProp(prev, cur, value), cur |-> cur,
              isNew |-> GetProp(prev, cur).t = "undefined",
              inArray |-> isArray(prev)]
    ELSE LET child == GetProp(prev, parts[1])
             r == setReduce(IF isObject(child) THEN child ELSE EmptyObj,
                            Tail(parts), value)
         IN  [r EXCEPT !.v = SetProp(prev, parts[1], r.v)]

setReturningPath(self, path, value, element) ==
    IF IsIdentical(self.data, path, value) THEN [self EXCEPT !.ret = Undefined]
    ELSE LET r == setReduce(self.data, Split(path), value)
             parentPath == getParentPath(path)
             modifiedPath == IF r.inArray
                             THEN (IF parentPath # "" THEN parentPath \o "." ELSE "") \o r.cur
                             ELSE path
         IN  Then(notify([self EXCEPT !.data = r.v], modifiedPath, value,
                         IF r.isNew THEN "create" ELSE "update", element),
                  LAMBDA s1 : [s1 EXCEPT !.ret = Str(path)])

\* set(path, value, element); ret is the returned value
set(self, path, value, element) ==
    IF IsIdentical(self.data, path, value) THEN [self EXCEPT !.ret = Undefined]
    ELSE LET r == setReduce(self.data, Split(path), value)
             parentPath == getParentPath(path)
             modifiedPath == IF r.inArray
                             THEN (IF parentPath # "" THEN parentPath \o "." ELSE "") \o r.cur
                             ELSE path
         IN  Then(notify([self EXCEPT !.data = r.v], modifiedPath, value,
                         IF r.isNew THEN "create" ELSE "update", element),
                  LAMBDA s1 : [s1 EXCEPT !.ret = Str(modifiedPath)])

\* set(path, self.get(path)): the value handed to set is the one get
\* returns, the very object the document holds when the path holds a mapping
\* or a sequence. An object is === to itself, and so is null and every string
setStored(self, path) ==
    LET value == get(self.data, path, FALSE)
    IN  IF isObject(value) \/ StrictEquals(value, value)
        THEN [self EXCEPT !.ret = Undefined]
        ELSE set(self, path, value, NoElement)

\* the reduce of delete over the remaining parts of the path
RECURSIVE deleteReduce(_, _)
deleteReduce(prev, parts) ==
    IF Len(parts) = 1
    THEN IF isArray(prev)
         THEN Arr(Splice(prev.s, ToInteger(parts[1]), 1, <<>>), prev.x)
         ELSE Obj(Drop(prev.m, parts[1]))
    ELSE LET child == GetProp(prev, parts[1])
         IN  SetProp(prev, parts[1],
                     deleteReduce(IF isObject(child) THEN child ELSE EmptyObj, Tail(parts)))

\* the registrations delete removes with the element: the bindings of
\* every path that starts with path, the observers stored under path
UnregisterBindingsOnly(self, path) == unbindAll(self, path)

Unregister(self, path) == unobserve(unbindAll(self, path), Str(path))

deleteNotifyingFirst(self, path) ==
    Then(Then(Unregister(self, path),
         LAMBDA s1 : [notify(s1, path, Null, "delete", NoElement)
                         EXCEPT !.data = deleteReduce(s1.data, Split(path))]),
         LAMBDA s2 : [s2 EXCEPT !.ret = Undefined])

delete(self, path) ==
    Then(Then(Unregister(self, path),
         LAMBDA s1 : notify([s1 EXCEPT !.data = deleteReduce(s1.data, Split(path))],
                            path, Null, "delete", NoElement)),
         LAMBDA s2 : [s2 EXCEPT !.ret = Undefined])

moveInObject(self, fromPath, toPath) ==
    LET value == get(self.data, fromPath, FALSE)
    IN  Then(delete(self, fromPath), LAMBDA s1 : set(s1, toPath, value, NoElement))

\* the index at which moveInArray splices the value in
InsertIndex(prev, cur) ==
    LET parsed == parseInt(cur)
        index == IF parsed.nan THEN 0 ELSE parsed.n
    IN  IF isArray(prev) /\ index > Len(prev.s) THEN Len(prev.s) ELSE index

\* prev.splice(index, 0, value) on an array prev
InsertOverwriting(prev, index, value) ==
    Arr(Splice(prev.s, index, 1, <<value>>), prev.x)

Insert(prev, index, value) == Arr(Splice(prev.s, index, 0, <<value>>), prev.x)

\* the reduce of moveInArray over the remaining parts of toPath; prev.splice
\* is a TypeError when prev is not an array
RECURSIVE moveReduce(_, _, _)
moveReduce(prev, parts, value) ==
    IF Len(parts) = 1
    THEN IF isArray(prev)
         THEN [v |-> Insert(prev, InsertIndex(prev, parts[1]), value),
               index |-> InsertIndex(prev, parts[1]), threw |-> FALSE]
         ELSE [v |-> prev, index |-> InsertIndex(prev, parts[1]), threw |-> TRUE]
    ELSE LET child == GetProp(prev, parts[1])
             r == moveReduce(IF isObject(child) THEN child ELSE EmptyObj,
                             Tail(parts), value)
         IN  [r EXCEPT !.v = SetProp(prev, parts[1], r.v)]

moveInArray(self, fromPath, toPath) ==
    LET value == get(self.data, fromPath, FALSE)
        parentPath == getParentPath(toPath)
    IN  Then(delete(self, fromPath), LAMBDA s1 :
            LET r == moveReduce(s1.data, Split(toPath), value)
                modifiedPath == (IF parentPath # "" THEN parentPath \o "." ELSE "")
                                \o NumberToString(r.index)
            IN  IF r.threw THEN [s1 EXCEPT !.data = r.v, !.threw = TRUE]
                ELSE [notify([s1 EXCEPT !.data = r.v], modifiedPath, value, "create",
                             NoElement)
                         EXCEPT !.ret = Str(modifiedPath)])

move(self, fromPath, toPath) ==
    IF fromPath = toPath THEN [self EXCEPT !.ret = Undefined]
    ELSE IF isInArray(self.data, toPath) THEN moveInArray(self, fromPath, toPath)
    ELSE moveInObject(self, fromPath, toPath)

\* ------------------------------------------------------------ UI events
\* domChange(e, path, attribute) for an event whose target is the element:
\* every binding of the path and attribute that holds the target sets the
\* path to the live property of the element, reverse transformed when the
\* binding has a valueTransformer, and names the element as the origin.
\* The log keeps each of these calls of set: the round it would start, the
\* path and value it was given and, as changedPath, what it returned
SetFromElement(self, path, attribute, binding, origin) ==
    LET live == IF isProperty(self.dom, attribute, binding.element)
                THEN self.dom[binding.element].props[attribute]
                ELSE Undefined
        value == IF HasValueTransformer(binding.options)
                 THEN reverseTransformedValue(live)
                 ELSE live
    IN  Then(set(self, path, value, origin), LAMBDA s1 :
            [s1 EXCEPT !.log = Append(@,
                [kind |-> "set", n |-> Len(self.notes) + 1, path |-> Str(path),
                 changedPath |-> s1.ret, value |-> value, action |-> "",
                 element |-> binding.element, attribute |-> attribute,
                 callback |-> ""])])

RECURSIVE DomChangeFrom(_, _, _, _, _)
DomChangeFrom(self, target, path, attribute, i) ==
    IF path \notin DOMAIN self.bindings THEN [self EXCEPT !.threw = TRUE]
    ELSE IF attribute \notin DOMAIN self.bindings[path] THEN [self EXCEPT !.threw = TRUE]
    ELSE IF i > Len(self.bindings[path][attribute]) THEN self
    ELSE LET binding == self.bindings[path][attribute][i]
         IN  Then(IF target = binding.element
                  THEN SetFromElement(self, path, attribute, binding, binding.element)
                  ELSE self,
                  LAMBDA s1 : DomChangeFrom(s1, target, path, attribute, i + 1))

domChangeWithoutOrigin(self, target, path, attribute) ==
    IF path \notin DOMAIN self.bindings THEN self
    ELSE IF attribute \notin DOMAIN self.bindings[path] THEN self
    ELSE LET binding == self.bindings[path][attribute][1]
         IN  IF target = binding.element
             THEN SetFromElement(self, path, attribute, binding, NoElement)
             ELSE self

domChange(self, target, path, attribute) ==
    IF path \notin DOMAIN self.bindings THEN self
    ELSE IF attribute \notin DOMAIN self.bindings[path] THEN self
    ELSE DomChangeFrom(self, target, path, attribute, 1)

\* the handler bind makes for a binding, called with an event on target:
\* a one-way binding calls preventDefault and returns
HandlerIgnoringTwoways(self, listener, target) ==
    domChange(self, target, listener.path, listener.attribute)

Handler(self, listener, target) ==
    IF ~listener.options.twoways
    THEN [self EXCEPT !.log = Append(@,
            [kind |-> "prevent", n |-> self.n, path |-> Str(listener.path),
             changedPath |-> Str(listener.path), value |-> Undefined,
             action |-> "", element |-> target,
             attribute |-> listener.attribute, callback |-> ""])]
    ELSE domChange(self, target, listener.path, listener.attribute)

\* an event of the given type on target: the listeners that addEventListener
\* attached for that type are called in the order they were attached
RECURSIVE DispatchTo(_, _, _, _)
DispatchTo(self, target, event, listeners) ==
    IF Len(listeners) = 0 THEN self
    ELSE Then(IF listeners[1].event = event
              THEN Handler(self, listeners[1], target)
              ELSE self,
              LAMBDA s1 : DispatchTo(s1, target, event, Tail(listeners)))

dispatchEvent(self, target, event) ==
    DispatchTo(self, target, event, self.dom[target].listeners)

\* ------------------------------------------------------------ the instance
VARIABLES data, bindings, observables, dom, log, notes, call, ret, threw

vars == <<data, bindings, observables, dom, log, notes, call, ret, threw>>

\* the document the instance is created with: {a: {b: "x"}, c: ["x", "y"]}
InitialData ==
    Obj([k \in {"a", "c"} |->
            IF k = "a" THEN Obj([j \in {"b"} |-> Str("x")])
            ELSE List(<<Str("x"), Str("y")>>)])

\* the paths and values of the calls on the mapping part of the document
Paths == {"a", "a.b", "a.b.c"}

Values == {Null, Str("z"), Obj([j \in {"b"} |-> Obj([i \in {"c"} |-> Str("z")])])}

\* the moves made on the mapping part
MovedPaths == {<<"a.b.c", "a.b">>}

\* the paths and values of the calls on the sequence c, and the moves made
\* there: between any two of these paths, and of c into itself
ArrayPaths == {"a.b", "c.0", "c.5", "c.-1"}

ArrayValues == {Null, Str("z")}

ArrayMoves == (ArrayPaths \X ArrayPaths) \cup {<<"c", "c.0">>}

\* an element as the page provides it: an input with a live value property
\* and no listener
InitialElement == [props |-> [j \in {"value", "disabled"} |->
                                 IF j = "value" THEN Str("") ELSE Bool(FALSE)],
                   attrs |-> EmptyMap,
                   listeners |-> <<>>]

\* the last call or event: turn tells an event of a chain from the one before
NoCall == [op |-> "new", path |-> "", to |-> "", value |-> Undefined,
           element |-> NoElement, callback |-> "", turn |-> 0]

\* nesting depth of a value and the longest array in it
RECURSIVE Depth(_)
Max(S) == CHOOSE m \in S : \A o \in S : o <= m

Depth(v) ==
    IF v.t = "object" THEN 1 + Max({0} \cup {Depth(v.m[k]) : k \in DOMAIN v.m})
    ELSE IF v.t = "array"
         THEN 1 + Max({0} \cup {Depth(v.s[i]) : i \in 1..Len(v.s)}
                          \cup {Depth(v.x[k]) : k \in DOMAIN v.x})
    ELSE 0

RECURSIVE LongestArray(_)
LongestArray(v) ==
    IF v.t = "object" THEN Max({0} \cup {LongestArray(v.m[k]) : k \in DOMAIN v.m})
    ELSE IF v.t = "array"
         THEN Max({Len(v.s)} \cup {LongestArray(v.s[i]) : i \in 1..Len(v.s)}
                      \cup {LongestArray(v.x[k]) : k \in DOMAIN v.x})
    ELSE 0

\* deepest document the model lets a call build
MaxDepth == 3

Fits(v) == LongestArray(v) <= MaxLen /\ Depth(v) <= MaxDepth

RECURSIVE Count(_)
Count(registry) ==
    IF DOMAIN registry = {} THEN 0
    ELSE LET k == CHOOSE k \in DOMAIN registry : TRUE
         IN  Len(registry[k]) + Count(Drop(registry, k))

BindingCount(reg) ==
    Count([p \in DOMAIN reg |-> [i \in 1..Count(reg[p]) |-> i]])

Init ==
    /\ data = InitialData
    /\ bindings = EmptyMap
    /\ observables = EmptyMap
    /\ dom = [e \in Elements |-> InitialElement]
    /\ log = <<>>
    /\ notes = <<>>
    /\ call = NoCall
    /\ ret = Undefined
    /\ threw = FALSE

\* the instance as a call finds it
Self == [data |-> data, bindings |-> bindings, observables |-> observables,
         dom |-> dom, log |-> <<>>, notes |-> <<>>, n |-> 0, ret |-> Undefined,
         threw |-> FALSE]

\* the instance as a call leaves it; an uncaught exception ends the run
Returns(self, c) ==
    /\ ~threw
    /\ Fits(self.data)
    /\ data' = self.data
    /\ bindings' = self.bindings
    /\ observables' = self.observables
    /\ dom' = self.dom
    /\ log' = self.log
    /\ notes' = self.notes
    /\ ret' = self.ret
    /\ threw' = self.threw
    /\ call' = c

SetOver(paths, values) ==
    \E path \in paths, value \in values :
        Returns(set(Self, path, value, NoElement),
                [NoCall EXCEPT !.op = "set", !.path = path, !.value = value])

MoveOver(pairs) ==
    \E pair \in pairs :
        Returns(move(Self, pair[1], pair[2]),
                [NoCall EXCEPT !.op = "move", !.path = pair[1], !.to = pair[2]])

DeleteOver(paths) ==
    \E path \in paths :
        Returns(delete(Self, path), [NoCall EXCEPT !.op = "delete", !.path = path])

Set == SetOver(Paths, Values)

Move == MoveOver(MovedPaths)

Delete == DeleteOver(Paths)

\* bind(domElement, path): attribute and options are left to their defaults
Bind ==
    \E domElement \in Elements, path \in Paths :
        /\ BindingCount(bindings) < MaxBindings
        /\ Returns(bind(Self, domElement, path, "value", DefaultOptions),
                   [NoCall EXCEPT !.op = "bind", !.path = path, !.element = domElement])

\* observe(path, callback): the path is null or one of ObservedPaths, the
\* callback the next function not yet registered for that path
ObservedPaths == {"a", "a.b"}

NewCallback(key) ==
    "f" \o NumberToString(
        (IF key \in DOMAIN observables THEN Len(observables[key]) ELSE 0) + 1)

Observe ==
    \E path \in {Null} \cup {Str(q) : q \in ObservedPaths} :
        /\ Count(observables) < MaxObservers
        /\ Returns(observe(Self, path, NewCallback(Key(path))),
                   [NoCall EXCEPT !.op = "observe", !.path = Key(path),
                                  !.callback = NewCallback(Key(path))])

Next == Set \/ Move \/ Delete \/ Bind \/ Observe

Spec == Init /\ [][Next]_vars

\* the calls on the sequence c, on an instance without subscribers
SetInArray == SetOver(ArrayPaths, ArrayValues)

MoveInArray == MoveOver(ArrayMoves)

DeleteInArray == DeleteOver(ArrayPaths)

NextArray == SetInArray \/ MoveInArray \/ DeleteInArray

SpecArray == Init /\ [][NextArray]_vars

\* the calls on the registries alone: bindings and observers at paths of
\* which one is a character prefix of another without being its ancestor
RegistryPaths == {"a", "a.b", "ab"}

Prefixes == {"", "a", "a.b", "b"}

\* most bindings, and most observers, the registry calls register
MaxRegistered == 2

BindAt ==
    \E domElement \in Elements, path \in RegistryPaths :
        /\ BindingCount(bindings) < MaxRegistered
        /\ Returns(bind(Self, domElement, path, "value", DefaultOptions),
                   [NoCall EXCEPT !.op = "bind", !.path = path, !.element = domElement])

ObserveAt ==
    \E path \in {Null} \cup {Str(q) : q \in RegistryPaths} :
        /\ Count(observables) < MaxRegistered
        /\ Returns(observe(Self, path, NewCallback(Key(path))),
                   [NoCall EXCEPT !.op = "observe", !.path = Key(path),
                                  !.callback = NewCallback(Key(path))])

UnbindAll ==
    \E optionalPath \in Prefixes :
        Returns(unbindAll(Self, optionalPath),
                [NoCall EXCEPT !.op = "unbindAll", !.path = optionalPath])

\* unobserveAll is called by remove only; here it is called with a prefix
UnobserveAll ==
    \E optionalPath \in Prefixes :
        Returns(unobserveAll(Self, optionalPath),
                [NoCall EXCEPT !.op = "unobserveAll", !.path = optionalPath])

Remove == Returns(remove(Self), [NoCall EXCEPT !.op = "remove"])

NextRegistry == BindAt \/ ObserveAt \/ UnbindAll \/ UnobserveAll \/ Remove

SpecRegistry == Init /\ [][NextRegistry]_vars

\* the calls made while observers call back into the instance from their
\* notification: a callback registered here is f1, which leaves the instance
\* alone, or one of those that RunCallback lets call observe, unobserve,
\* unbindAll, delete or remove
ReentrantCallbacks ==
    {"callsObserve", "callsUnobserve", "callsUnbindAll", "callsDelete", "callsRemove"}

ObserveReentrant ==
    \E path \in ObservedPaths, callback \in ReentrantCallbacks \cup {"f1"} :
        /\ Count(observables) < MaxRegistered
        /\ Returns(observe(Self, Str(path), callback),
                   [NoCall EXCEPT !.op = "observe", !.path = path,
                                  !.callback = callback])

BindObserved ==
    \E domElement \in Elements, path \in ObservedPaths :
        /\ BindingCount(bindings) < MaxBindings
        /\ Returns(bind(Self, domElement, path, "value", DefaultOptions),
                   [NoCall EXCEPT !.op = "bind", !.path = path, !.element = domElement])

\* the observers a callback adds stay within MaxObservers
SetObserved ==
    \E path \in ObservedPaths, value \in {Null, Str("z")} :
        /\ ~threw
        /\ \E after \in {set(Self, path, value, NoElement)} :
               /\ Count(after.observables) <= MaxObservers
               /\ Returns(after, [NoCall EXCEPT !.op = "set", !.path = path,
                                                !.value = value])

DeleteObserved ==
    \E path \in ObservedPaths :
        /\ ~threw
        /\ \E after \in {delete(Self, path)} :
               /\ Count(after.observables) <= MaxObservers
               /\ Returns(after, [NoCall EXCEPT !.op = "delete", !.path = path])

NextReentrant == ObserveReentrant \/ BindObserved \/ SetObserved \/ DeleteObserved

SpecReentrant == Init /\ [][NextReentrant]_vars

\* the calls and the UI events on bound elements: a binding is two-way by
\* default, one-way, or two-way with a valueTransformer; its path is a key
\* of a mapping or an index beyond the end of the sequence c
EventPaths == {"a.b", "c.5"}

OneWayOptions == [twoways |-> FALSE, event |-> "change"]

TransformOptions == [twoways |-> TRUE, event |-> "change", valueTransformer |-> "dollar"]

\* what the user types into an element before its event fires
Texts == {"q", "$q"}

BindWith ==
    \E domElement \in Elements, path \in EventPaths,
       options \in {DefaultOptions, OneWayOptions, TransformOptions} :
        /\ BindingCount(bindings) < MaxBindings
        /\ Returns(bind(Self, domElement, path, "value", options),
                   [NoCall EXCEPT !.op = "bind", !.path = path, !.element = domElement])

ObserveBound ==
    \E path \in {Null, Str("a.b")} :
        /\ Count(observables) < MaxRegistered
        /\ Returns(observe(Self, path, NewCallback(Key(path))),
                   [NoCall EXCEPT !.op = "observe", !.path = Key(path),
                                  !.callback = NewCallback(Key(path))])

\* the user changes the value of an element and its change event fires
Typed(self, element, text) ==
    [self EXCEPT !.dom = [@ EXCEPT ![element].props = Put(@, "value", Str(text))]]

Input ==
    \E element \in Elements, text \in Texts :
        Returns(Then(Typed(Self, element, text),
                     LAMBDA s1 : dispatchEvent(s1, element, "change")),
                [NoCall EXCEPT !.op = "input", !.element = element,
                               !.value = Str(text)])

SetBound == SetOver(EventPaths, {Str("z")})

NextEvents == BindWith \/ ObserveBound \/ Input \/ SetBound

SpecEvents == Init /\ [][NextEvents]_vars

\* the feedback between a two-way bound element and the document, were every
\* write to the element to fire its change event again: the events that the
\* writes of a call fire are delivered once the call has returned. A chain
\* starts with a value typed into the element and is open for as long as the
\* last event wrote an element; the calls and the user wait for it to close
FeedbackPaths == {"a", "a.b"}

WrittenElements ==
    {log[i].element : i \in {j \in 1..Len(log) : log[j].kind = "bind"}}

ChainOpen == call.op \in {"input", "refire"} /\ WrittenElements # {}

BindTwoWay ==
    \E domElement \in Elements, path \in FeedbackPaths :
        /\ ~ChainOpen
        /\ BindingCount(bindings) < MaxRegistered
        /\ Returns(bind(Self, domElement, path, "value", DefaultOptions),
                   [NoCall EXCEPT !.op = "bind", !.path = path, !.element = domElement])

StartChain == ~ChainOpen /\ Input

\* a set between two chains, without origin
SetBetweenChains == ~ChainOpen /\ SetOver(FeedbackPaths, {Null, Str("z")})

Refire ==
    \E element \in WrittenElements :
        /\ ChainOpen
        /\ \E after \in {dispatchEvent(Self, element, "change")} :
               Returns(after, [NoCall EXCEPT !.op = "refire", !.element = element,
                                             !.turn = 1 - call.turn])

NextFeedback == BindTwoWay \/ StartChain \/ SetBetweenChains \/ Refire

SpecFeedback == Init /\ [][NextFeedback]_vars /\ WF_vars(Refire)

\* the reads: get(key, allowUndefined) on the documents that set and delete
\* make of the first one; to tells whether allowUndefined was true
GetPaths == {"a", "a.b", "a.b.0", "c.0", "c.5"}

GetKeys == GetPaths \cup {""}

SetRead == SetOver(GetPaths, {Null, Str("z")})

DeleteRead == DeleteOver(GetPaths)

Get ==
    \E key \in GetKeys, allowUndefined \in BOOLEAN :
        Returns([Self EXCEPT !.ret = get(data, key, allowUndefined)],
                [NoCall EXCEPT !.op = "get", !.path = key,
                               !.to = IF allowUndefined THEN "allowUndefined" ELSE ""])

NextGet == SetRead \/ DeleteRead \/ Get

SpecGet == Init /\ [][NextGet]_vars

\* observe and unobserve with every kind of path observe accepts: null, the
\* empty string and a named path; the call keeps the path as a key, "null"
\* for null
WatchedPaths == {Null, Str(""), Str("a.b")}

ObserveAny ==
    \E path \in WatchedPaths :
        /\ Count(observables) < MaxRegistered
        /\ \E after \in {observe(Self, path, "f1")} :
               Returns(after, [NoCall EXCEPT !.op = "observe", !.path = Key(path),
                                             !.callback = "f1"])

Unobserve ==
    \E path \in WatchedPaths :
        Returns(unobserve(Self, path),
                [NoCall EXCEPT !.op = "unobserve", !.path = Key(path)])

SetWatched == SetOver({"a.b"}, {Null, Str("z")})

NextObserve == ObserveAny \/ Unobserve \/ SetWatched

SpecObserve == Init /\ [][NextObserve]_vars

\* bind and unbind of an element at the same or at different paths
Unbind ==
    \E domElement \in Elements, path \in RegistryPaths :
        \E after \in {unbind(Self, domElement, path, "value")} :
            Returns(after, [NoCall EXCEPT !.op = "unbind", !.path = path,
                                          !.element = domElement])

NextUnbind == BindAt \/ Unbind

SpecUnbind == Init /\ [][NextUnbind]_vars

\* the options of the bindings that are rendered: none, each one-way
\* transform alone (booleanCondition also with the empty string as the
\* condition), and two transforms together
RenderOptions ==
    {DefaultOptions,
     [boolean |-> TRUE] @@ DefaultOptions,
     [negateBoolean |-> TRUE] @@ DefaultOptions,
     [booleanCondition |-> Str("x")] @@ DefaultOptions,
     [booleanCondition |-> Str("")] @@ DefaultOptions,
     [negateBooleanCondition |-> Str("x")] @@ DefaultOptions,
     [boolean |-> TRUE] @@ TransformOptions,
     [boolean |-> TRUE, negateBoolean |-> TRUE] @@ DefaultOptions,
     [negateBoolean |-> TRUE, booleanCondition |-> Str("x")] @@ DefaultOptions,
     [booleanCondition |-> Str("x"), negateBooleanCondition |-> Str("x")]
         @@ DefaultOptions}

\* value is a property of the element and no boolean attribute, disabled is a
\* boolean attribute and a property of the element, open is a boolean
\* attribute the element has no property for
RenderAttributes == {"value", "disabled", "open"}

RenderPath == "a.b"

BindRendered ==
    \E domElement \in Elements, attribute \in RenderAttributes,
       options \in RenderOptions :
        /\ BindingCount(bindings) < MaxBindings
        /\ \E after \in {bind(Self, domElement, RenderPath, attribute, options)} :
               Returns(after, [NoCall EXCEPT !.op = "bind", !.path = RenderPath,
                                             !.to = attribute,
                                             !.element = domElement])

SetRendered == SetOver({RenderPath}, {Null, Str(""), Str("x"), Str("z")})

NextRender == BindRendered \/ SetRendered

SpecRender == Init /\ [][NextRender]_vars

\* the paths set is called with to reach every kind of target: a key below
\* the string at a.b, which is a key of the mapping at a.b from then on, a
\* key below mappings that are missing (d.e.k), and on the sequence c an
\* index in range, one beyond the end, a negative one and a key that is no
\* number
TargetPaths == {"a.b.0", "d.e.k", "c.0", "c.5", "c.-1", "c.k"}

TargetValues == {Null, Str("z")}

SetTarget == SetOver(TargetPaths, TargetValues)

\* observers at the root, at a path above targets and at a target
TargetObservers == {Null, Str("a.b"), Str("a.b.0")}

ObserveTarget ==
    \E path \in TargetObservers :
        /\ Count(observables) < MaxRegistered
        /\ Returns(observe(Self, path, NewCallback(Key(path))),
                   [NoCall EXCEPT !.op = "observe", !.path = Key(path),
                                  !.callback = NewCallback(Key(path))])

NextTarget == SetTarget \/ ObserveTarget

SpecTarget == Init /\ [][NextTarget]_vars

\* mappings and sequences handed to set: built for the call, those equal to
\* what the document holds at first among them, or taken from the document
\* with get
CompositePaths == {"a", "c"}

CompositeValues == {Obj([j \in {"b"} |-> Str("x")]), EmptyObj,
                    List(<<Str("x"), Str("y")>>)}

SetComposite == SetOver(CompositePaths, CompositeValues)

SetStored ==
    \E path \in CompositePaths :
        \E after \in {setStored(Self, path)} :
            Returns(after, [NoCall EXCEPT !.op = "set", !.path = path,
                                          !.to = "stored",
                                          !.value = get(data, path, FALSE)])

ObserveComposite ==
    \E path \in {Null} \cup {Str(q) : q \in CompositePaths} :
        /\ Count(observables) < MaxRegistered
        /\ Returns(observe(Self, path, NewCallback(Key(path))),
                   [NoCall EXCEPT !.op = "observe", !.path = Key(path),
                                  !.callback = NewCallback(Key(path))])

NextComposite == SetComposite \/ SetStored \/ ObserveComposite

SpecComposite == Init /\ [][NextComposite]_vars

\* elements bound two-way with a valueTransformer, whose event fires with
\* the value they show or after the user typed another one
ShownPaths == {"a.b", "c.0"}

ShownValues == {Null, Str("z"), Str("$z")}

BindShown ==
    \E domElement \in Elements, path \in ShownPaths :
        /\ BindingCount(bindings) < MaxBindings
        /\ Returns(bind(Self, domElement, path, "value", TransformOptions),
                   [NoCall EXCEPT !.op = "bind", !.path = path, !.element = domElement])

SetShown == SetOver(ShownPaths, ShownValues)

Fire ==
    \E element \in Elements :
        \E after \in {dispatchEvent(Self, element, "change")} :
            Returns(after, [NoCall EXCEPT !.op = "fire", !.element = element])

NextShown == BindShown \/ ObserveBound \/ SetShown \/ Input \/ Fire

SpecShown == Init /\ [][NextShown]_vars

\* delete and move of paths that have observers of their own
DeletedPaths == {"a", "a.b"}

DeleteWatched == DeleteOver(DeletedPaths)

MoveWatched == MoveOver({<<"a.b", "a.d">>, <<"a.d", "a.b">>})

SetDeleted == SetOver(DeletedPaths, {Str("z")})

NextDeleted == Observe \/ DeleteWatched \/ MoveWatched \/ SetDeleted

SpecDeleted == Init /\ [][NextDeleted]_vars

\* set, move and delete at indices of the sequence c, in range and beyond the
\* end, and set below an element of c
DensePaths == {"c.0", "c.1", "c.5"}

SetDense == SetOver(DensePaths \cup {"c.2.k"}, {Null, Str("z")})

MoveDense == MoveOver((DensePaths \X DensePaths) \cup {<<"a.b", "c.5">>})

DeleteDense == DeleteOver(DensePaths)

NextDense == SetDense \/ MoveDense \/ DeleteDense

SpecDense == Init /\ [][NextDense]_vars

\* every call that attaches or detaches listeners: bind, unbind, unbindAll,
\* remove, and delete and move of bound paths; remove is the last call made
\* on the document of an instance
DeleteBound == data # Null /\ DeleteOver({"a", "a.b"})

MoveBound == data # Null /\ MoveOver({<<"a.b", "ab">>, <<"ab", "a.b">>})

NextListeners == BindAt \/ Unbind \/ UnbindAll \/ Remove \/ DeleteBound \/ MoveBound

SpecListeners == Init /\ [][NextListeners]_vars

\* bind at a path that holds a value and at one that is absent, with and
\* without a transform, beside bindings and observers that are there already
PushedPaths == {"a.b", "d"}

PushedOptions == {DefaultOptions, TransformOptions, [boolean |-> TRUE] @@ DefaultOptions}

BindPushed ==
    \E domElement \in Elements, path \in PushedPaths, options \in PushedOptions :
        /\ BindingCount(bindings) < MaxRegistered
        /\ \E after \in {bind(Self, domElement, path, "value", options)} :
               Returns(after, [NoCall EXCEPT !.op = "bind", !.path = path,
                                             !.element = domElement])

SetPushed == SetOver({"a.b"}, {Null, Str("z")})

NextPushed == BindPushed \/ ObserveBound \/ SetPushed

SpecPushed == Init /\ [][NextPushed]_vars

\* set below the string at a.b and at the indices and keys of the sequence c,
\* on an instance that has bindings and observers
FramedTargets == {"a.b.0", "c.0", "c.5", "c.-1", "c.k"}

SetFramed == SetOver(FramedTargets, TargetValues)

BindFramed ==
    \E domElement \in Elements, path \in {"a.b", "c.0"} :
        /\ BindingCount(bindings) < MaxBindings
        /\ Returns(bind(Self, domElement, path, "value", DefaultOptions),
                   [NoCall EXCEPT !.op = "bind", !.path = path, !.element = domElement])

NextFramed == SetFramed \/ BindFramed \/ ObserveBound

SpecFramed == Init /\ [][NextFramed]_vars

\* observers of the whole document and calls that name the top-level path
\* "null": observe, unobserve and set of it, and unobserveAll("n"); the
\* argument of observe and unobserve is kept as the value of the call
RootPaths == {Null, Str("null")}

ObserveRoot ==
    \E path \in RootPaths :
        /\ Count(observables) < MaxRegistered
        /\ Returns(observe(Self, path, NewCallback(Key(path))),
                   [NoCall EXCEPT !.op = "observe", !.path = Key(path),
                                  !.value = path,
                                  !.callback = NewCallback(Key(path))])

UnobserveNamed ==
    Returns(unobserve(Self, Str("null")),
            [NoCall EXCEPT !.op = "unobserve", !.path = "null", !.value = Str("null")])

UnobserveAllNamed ==
    Returns(unobserveAll(Self, "n"), [NoCall EXCEPT !.op = "unobserveAll", !.path = "n"])

SetNamed == SetOver({"null", "a.b"}, {Null, Str("z")})

NextRoot == ObserveRoot \/ UnobserveNamed \/ UnobserveAllNamed \/ SetNamed

SpecRoot == Init /\ [][NextRoot]_vars

\* ------------------------------------------------------------- properties
IsPrimitiveOrNull(v) == v.t \in {"string", "null"}

IsMutation(op) == op \in {"set", "move", "delete"}

\* the observer calls of round k, in the order they were made
ObserverCalls(k) ==
    LET calls == SelectSeq(log, LAMBDA e : e.kind = "observer" /\ e.n = k)
    IN  [i \in 1..Len(calls) |-> [path |-> calls[i].path, callback |-> calls[i].callback]]

\* the registrations stored under key, as calls with the given path
Registered(key, path) ==
    IF key \in DOMAIN observables
    THEN [i \in 1..Len(observables[key]) |->
             [path |-> path, callback |-> observables[key][i].callback]]
    ELSE <<>>

\* the registrations of the proper ancestors of a path with the given
\* parts, the deepest ancestor first
RECURSIVE RegisteredAbove(_)
RegisteredAbove(parts) ==
    IF Len(parts) <= 1 THEN <<>>
    ELSE Registered(Join(Pop(parts)), Str(Join(Pop(parts)))) \o RegisteredAbove(Pop(parts))

\* C1: set(p, get(p)) for a primitive or null get(p) leaves the document,
\* the bound elements and both registries unchanged and calls no observer
\* and writes no element.
C1_EqualPrimitiveSetIsNoOp ==
    [][(/\ call'.op = "set"
        /\ IsPrimitiveOrNull(get(data, call'.path, FALSE))
        /\ call'.value = get(data, call'.path, FALSE))
       => (/\ data' = data
           /\ dom' = dom
           /\ bindings' = bindings
           /\ observables' = observables
           /\ log' = <<>>
           /\ notes' = <<>>)]_vars

\* an equal primitive has been set at a path that has a binding and an
\* observer
C1_Witness ==
    /\ call.op = "set"
    /\ call.value = Str("z")
    /\ get(data, call.path, FALSE) = Str("z")
    /\ ret = Undefined
    /\ call.path \in DOMAIN bindings
    /\ call.path \in DOMAIN observables
    /\ Len(observables[call.path]) > 0
    /\ log = <<>>

\* C3: within one notification every binding update precedes the first
\* observer call.
C3_BindingsBeforeObservers ==
    \A i \in 1..Len(log) : \A j \in 1..Len(log) :
        (i < j /\ log[i].n = log[j].n /\ log[i].kind = "observer")
        => log[j].kind # "bind"

\* a notification that updated a binding on a descendant path and then
\* called an observer
C3_Witness ==
    \E i \in 1..Len(log) : \E j \in 1..Len(log) :
        /\ log[i].n > 0
        /\ log[i].n = log[j].n
        /\ log[i].kind = "bind"
        /\ log[i].path # Str(notes[log[i].n].path)
        /\ log[j].kind = "observer"

\* C4: the observers of one notification at P are called in this order:
\* those registered at P, those of each proper ancestor from the deepest
\* to the shallowest, the whole-document observers last, and the latter
\* whatever the ancestors have.
C4_ObserverOrder ==
    \A k \in 1..Len(notes) :
        ObserverCalls(k) =
            Registered(notes[k].path, Str(notes[k].path))
            \o RegisteredAbove(Split(notes[k].path))
            \o Registered("null", Null)

\* a notification that called an observer of P, then one of an ancestor,
\* then a whole-document observer
C4_Witness ==
    \E k \in 1..Len(notes) :
        /\ Len(ObserverCalls(k)) = 3
        /\ ObserverCalls(k)[1].path = Str(notes[k].path)
        /\ ObserverCalls(k)[2].path \notin {Null, Str(notes[k].path)}
        /\ ObserverCalls(k)[3].path = Null

\* C5: an observer of an ancestor Q of the mutated path P, and a
\* whole-document observer, is called with path Q (null for the document),
\* changedPath P, the action of the mutation and the value stored at Q
\* after the mutation.
C5_AncestorNotification ==
    \A i \in 1..Len(log) :
        (log[i].kind = "observer" /\ log[i].path # Str(notes[log[i].n].path))
        => LET note == notes[log[i].n]
           IN  /\ log[i].changedPath = Str(note.path)
               /\ log[i].action = note.action
               /\ log[i].path = Null \/ StartsWith(note.path, log[i].path.p \o ".")
               /\ log[i].value = get(note.data, IF log[i].path = Null THEN ""
                                                ELSE log[i].path.p, FALSE)

\* set("a.b", v) has called the observer of "a" with the new value of "a",
\* which holds v at b, then the whole-document observer with the document
C5_Witness ==
    /\ call.op = "set"
    /\ call.path = "a.b"
    /\ \E i \in 1..Len(log) : \E j \in 1..Len(log) :
        /\ i < j
        /\ log[i].kind = "observer" /\ log[j].kind = "observer"
        /\ log[i].path = Str("a") /\ log[i].changedPath = Str("a.b")
        /\ log[i].value = Obj([k \in {"b"} |-> call.value])
        /\ log[j].path = Null /\ log[j].value = data

\* the part of path q below path p
Below(p, q) == SubSeq(q, Len(p) + 2, Len(q))

\* C6: when set writes a composite V at canonical path P, every binding
\* registered at a path P.k1...kn that exists inside V is updated with the
\* value V holds there, at every depth.
C6_DescendantFanOut ==
    (call.op = "set" /\ ret # Undefined /\ isObject(call.value))
    => \A q \in DOMAIN bindings :
         (StartsWith(q, ret.p \o ".") /\ get(call.value, Below(ret.p, q), TRUE) # Undefined)
         => \A a \in DOMAIN bindings[q] : \A b \in 1..Len(bindings[q][a]) :
              \E i \in 1..Len(log) :
                 /\ log[i].kind = "bind"
                 /\ log[i].path = Str(q)
                 /\ log[i].attribute = a
                 /\ log[i].element = bindings[q][a][b].element
                 /\ log[i].value = get(call.value, Below(ret.p, q), TRUE)

\* set("a", {b: {c: "z"}}) has updated a binding on "a.b.c" with "z"
C6_Witness ==
    /\ call.op = "set"
    /\ call.path = "a"
    /\ isObject(call.value)
    /\ "a.b.c" \in DOMAIN bindings
    /\ \E i \in 1..Len(log) :
        /\ log[i].kind = "bind"
        /\ log[i].path = Str("a.b.c")
        /\ log[i].value = Str("z")
        /\ dom[log[i].element].props["value"] = Str("z")

\* the bindings of the registry that hold handler h on element e
Holds(e, h) ==
    \E p \in DOMAIN bindings : \E a \in DOMAIN bindings[p] :
        \E b \in 1..Len(bindings[p][a]) :
            bindings[p][a][b].element = e /\ bindings[p][a][b].handler = h

\* C7: delete(P) leaves no binding whose path is P or starts with P, the
\* listeners of the removed bindings are detached before the removal is
\* notified, and no call writes an element through a binding that is gone.
C7_DeleteUnbinds ==
    /\ call.op = "delete"
       => /\ \A q \in DOMAIN bindings : ~StartsWith(q, call.path)
          /\ \A i \in 1..Len(log) : log[i].kind = "detach" => log[i].n = 0
    /\ \A e \in DOMAIN dom : \A l \in 1..Len(dom[e].listeners) :
            Holds(e, dom[e].listeners[l].handler)
    /\ \A i \in 1..Len(log) :
          (log[i].kind = "bind" /\ IsMutation(call.op))
          => \E a \in DOMAIN bindings[log[i].path.p] :
                \E b \in 1..Len(bindings[log[i].path.p][a]) :
                    bindings[log[i].path.p][a][b].element = log[i].element

\* delete("a") has detached the listener of a binding on a path below "a"
C7_Witness ==
    /\ call.op = "delete"
    /\ call.path = "a"
    /\ \E i \in 1..Len(log) :
        /\ log[i].kind = "detach"
        /\ log[i].path \in {Str("a.b"), Str("a.b.c")}
        /\ dom[log[i].element].listeners = <<>>

\* C8 as claimed: delete(P) leaves no observer registered at P or at a
\* path that starts with P.
C8_DeleteUnobservesPrefix ==
    call.op = "delete"
    => \A k \in DOMAIN observables :
          StartsWith(k, call.path) => observables[k] = <<>>

\* the last segment of a path
LastPart(path) == Split(path)[Len(Split(path))]

\* the index set clamps a requested index i to, on a sequence of length n
Clamped(i, n) == IF i > n THEN n ELSE IF i < 0 THEN 0 ELSE i

\* what C2 says of a set step on a sequence parent: the value is at the
\* clamped index, an index above the length appends, and the returned path
\* ends in the index written
WritesAtClampedIndex ==
    LET path == call'.path
        n == Len(getParentValue(data, path).s)
        i == parseInt(LastPart(path)).n
        after == getParentValue(data', path)
    IN  /\ isArray(after)
        /\ Len(after.s) > Clamped(i, n)
        /\ after.s[Clamped(i, n) + 1] = call'.value
        /\ i > n => Len(after.s) = n + 1
        /\ ret' = Str(getParentPath(path) \o "." \o NumberToString(Clamped(i, n)))

\* C2 as claimed: every set whose parent is a sequence writes at the
\* clamped index and returns the path of that index.
C2_EverySetWritesAtClampedIndex ==
    [][(call'.op = "set" /\ isInArray(data, call'.path)) => WritesAtClampedIndex]_vars

\* C2: a set whose parent is a sequence and whose value is not identical
\* to get(path) writes at the requested index clamped into [0, length]
\* (above the length it appends) and returns the path ending in that index.
C2_ClampAndAppend ==
    [][(/\ call'.op = "set"
        /\ isInArray(data, call'.path)
        /\ ~StrictEquals(get(data, call'.path, FALSE), call'.value))
       => WritesAtClampedIndex]_vars

\* set("c.5", "z") on ["x", "y"] has returned "c.2" and appended "z"
C2_Witness ==
    /\ call.op = "set"
    /\ call.path = "c.5"
    /\ ret = Str("c.2")
    /\ get(data, "c", FALSE) = List(<<Str("x"), Str("y"), Str("z")>>)

\* new is old with v inserted at one index, the elements from there on
\* shifted by one
InsertedIn(old, new, v) ==
    /\ Len(new) = Len(old) + 1
    /\ \E k \in 1..Len(new) :
          /\ new[k] = v
          /\ \A j \in 1..Len(old) : new[IF j < k THEN j ELSE j + 1] = old[j]

Without(seq, j) == SubSeq(seq, 1, j - 1) \o SubSeq(seq, j + 1, Len(seq))

\* the document once move has removed fromPath
AfterRemoval == delete(Self, call'.path).data

C10_MoveReturnsIndexInRange ==
    [][(/\ call'.op = "move"
        /\ call'.path # call'.to
        /\ isInArray(data, call'.to)
        /\ isInArray(AfterRemoval, call'.to))
       => /\ ret'.t = "string"
          /\ ~parseInt(LastPart(ret'.p)).nan
          /\ parseInt(LastPart(ret'.p)).n \in
                0..Len(getParentValue(AfterRemoval, call'.to).s)
          /\ get(data', ret'.p, FALSE) = get(data, call'.path, FALSE)]_vars

\* the observer calls of the running call made for path p with callback f
Called(p, f) ==
    \E j \in 1..Len(log') :
        /\ log'[j].kind = "observer"
        /\ log'[j].path = Str(p)
        /\ log'[j].callback = f

\* C11: a set, move or delete that changes the value read at a path P calls
\* every observer registered at P when the call started, also when the
\* change comes from replacing or deleting an ancestor of P.
C11_ObserversOfChangedPathCalled ==
    [][(IsMutation(call'.op) /\ ~threw')
       => \A p \in DOMAIN observables \ {"null"} :
            get(data, p, FALSE) # get(data', p, FALSE)
            => \A i \in 1..Len(observables[p]) : Called(p, observables[p][i].callback)]_vars

\* C12: after every call, the bound property of the element of every
\* binding in the registry equals the value read at the binding's path.
\* (Compared where both are primitive or null: an element that was handed
\* a composite holds a reference to it, which this model does not track.)
C12_BoundElementsInSync ==
    \A p \in DOMAIN bindings : \A a \in DOMAIN bindings[p] :
        \A i \in 1..Len(bindings[p][a]) :
            LET shown == dom[bindings[p][a][i].element].props[a]
            IN  (IsPrimitiveOrNull(shown) /\ IsPrimitiveOrNull(get(data, p, FALSE)))
                => shown = get(data, p, FALSE)

\* C20: every call of set and of move returns a path string.
C20_SetAndMoveReturnAPath ==
    [][(call'.op \in {"set", "move"} /\ ~threw') => ret'.t = "string"]_vars

\* C13: unbindAll(prefix) removes exactly the bindings whose path starts
\* with prefix, character by character, and unobserveAll(prefix) exactly
\* the observers of such named paths; without a prefix each registry is
\* emptied; everything else stays registered.
C13_PrefixRemoval ==
    [][/\ call'.op = "unbindAll"
          => /\ DOMAIN bindings' = {p \in DOMAIN bindings : ~StartsWith(p, call'.path)}
             /\ \A p \in DOMAIN bindings' : bindings'[p] = bindings[p]
             /\ call'.path = "" => bindings' = EmptyMap
             /\ observables' = observables
       /\ call'.op = "unobserveAll"
          => /\ DOMAIN observables' \ {"null"} =
                    {p \in DOMAIN observables \ {"null"} : ~StartsWith(p, call'.path)}
             /\ \A p \in DOMAIN observables' \ {"null"} : observables'[p] = observables[p]
             /\ call'.path = "" => observables' = EmptyMap
             /\ bindings' = bindings]_vars

\* unbindAll("a") has removed the binding of "ab" and left none
C13_Witness ==
    /\ call.op = "unbindAll"
    /\ call.path = "a"
    /\ \E i \in 1..Len(log) : log[i].kind = "detach" /\ log[i].path = Str("ab")
    /\ \E i \in 1..Len(log) : log[i].kind = "detach" /\ log[i].path = Str("a.b")
    /\ bindings = EmptyMap

\* C14: after remove() both registries are empty, no handler made by bind
\* is attached to an element and the document is null.
C14_RemoveReleasesEverything ==
    call.op = "remove"
    => /\ bindings = EmptyMap
       /\ observables = EmptyMap
       /\ \A e \in DOMAIN dom : dom[e].listeners = <<>>
       /\ data = Null

\* remove() has detached two listeners
C14_Witness ==
    /\ call.op = "remove"
    /\ \E i \in 1..Len(log) : \E j \in 1..Len(log) :
          i # j /\ log[i].kind = "detach" /\ log[j].kind = "detach"
    /\ data = Null

\* C15: the observers called for the path of a set are the registrations
\* stored under that path when the call began, each called once and in the
\* order of registration, whatever the callbacks do to the registry meanwhile
C15_SubscribersSnapshotted ==
    [][(call'.op = "set" /\ ~threw' /\ Len(notes') > 0) =>
        LET P == notes'[1].path
            calls == SelectSeq(log', LAMBDA e : e.kind = "observer" /\ e.n = 1
                                                /\ e.path = Str(P))
        IN  [i \in 1..Len(calls) |-> calls[i].callback]
            = IF P \in DOMAIN observables
              THEN [i \in 1..Len(observables[P]) |-> observables[P][i].callback]
              ELSE <<>>]_vars

\* C16: a set or delete whose observers call back into the instance and
\* remove what is being notified still runs to completion
C16_ReentrantCallsComplete == IsMutation(call.op) => ~threw

\* the listeners of an element that belong to one-way bindings
OneWayListeners(listeners) ==
    {i \in 1..Len(listeners) : ~listeners[i].options.twoways}

First(list, Test(_)) ==
    list[CHOOSE i \in 1..Len(list) :
            Test(list[i]) /\ \A j \in 1..(i - 1) : ~Test(list[j])]

\* what an event that follows the typing of a value must do: the first call
\* of set is given the typed value, reverse transformed when the binding has
\* a valueTransformer; after every call of set that changed the document the
\* value is stored, at the path set was given (atGivenPath) or at the path
\* set returned, and the observers of its round are told the element
EventSetsLiveValue(atGivenPath) ==
    LET e == call'.element
        listeners == dom[e].listeners
        sets == SelectSeq(log', LAMBDA x : x.kind = "set")
    IN  /\ OneWayListeners(listeners) # 1..Len(listeners) =>
               /\ Len(sets) > 0
               /\ LET l == First(listeners, LAMBDA x : x.options.twoways)
                      b == First(bindings[l.path][l.attribute],
                                 LAMBDA x : x.element = e)
                  IN  sets[1].value = IF HasValueTransformer(b.options)
                                      THEN reverseTransformedValue(call'.value)
                                      ELSE call'.value
        /\ \A i \in 1..Len(sets) :
               sets[i].changedPath.t = "string" =>
                   /\ get(notes'[sets[i].n].data,
                          IF atGivenPath THEN sets[i].path.p ELSE sets[i].changedPath.p,
                          FALSE) = sets[i].value
                   /\ \A j \in 1..Len(log') :
                          (log'[j].kind = "observer" /\ log'[j].n = sets[i].n)
                              => log'[j].element = e

\* the observers of a set called without an element are told no element
ProgrammaticSetHasNoOrigin ==
    \A j \in 1..Len(log') : log'[j].kind = "observer" => log'[j].element = NoElement

C19_FeedbackTerminates == ChainOpen ~> ~ChainOpen

\* what a document stores at a path: the own key or index of a mapping or
\* sequence at every segment; nothing is stored below a primitive
RECURSIVE Stored(_, _)
Stored(v, parts) ==
    IF Len(parts) = 0 THEN [present |-> TRUE, v |-> v]
    ELSE IF isObject(v) /\ GetProp(v, parts[1]).t # "undefined"
         THEN Stored(GetProp(v, parts[1]), Tail(parts))
         ELSE [present |-> FALSE, v |-> Undefined]

\* C21: get returns what the document stores at the path, null for a path
\* that stores nothing, undefined for it when allowUndefined is true, the
\* document for an empty path, and leaves document and registries alone
C21_GetReturnsStored ==
    [][call'.op = "get" =>
        /\ UNCHANGED <<data, bindings, observables, dom>>
        /\ ret' = IF call'.path = "" THEN data
                  ELSE LET s == Stored(data, Split(call'.path))
                       IN  IF s.present THEN s.v
                           ELSE IF call'.to = "allowUndefined" THEN Undefined
                           ELSE Null]_vars

\* the key under which observe stores the observers of a path that the call
\* record keeps as a key: the empty string is stored under "null"
ObserveKey(key) == IF key = "" THEN "null" ELSE key

\* C22: observe(p, cb) followed by unobserve(p), for p null, the empty
\* string or a named path, leaves no observer where observe stored cb, so
\* that no later call finds cb to notify
C22_UnobserveRemovesObserved ==
    [][(call.op = "observe" /\ call'.op = "unobserve" /\ call'.path = call.path) =>
            \/ ObserveKey(call'.path) \notin DOMAIN observables'
            \/ observables'[ObserveKey(call'.path)] = <<>>]_vars

\* C23: after unbind(element, path, attribute) the registry holds no binding
\* of the element at that path and attribute and the element has none of the
\* listeners bind attached for them
C23_UnbindRemovesEveryBinding ==
    [][call'.op = "unbind" =>
        LET e == call'.element
            p == call'.path
        IN  /\ (p \in DOMAIN bindings' /\ "value" \in DOMAIN bindings'[p]) =>
                   \A i \in 1..Len(bindings'[p]["value"]) :
                       bindings'[p]["value"][i].element # e
            /\ \A i \in 1..Len(dom'[e].listeners) :
                   ~(dom'[e].listeners[i].path = p
                     /\ dom'[e].listeners[i].attribute = "value")]_vars

\* C24: every set, delete and move on a path of non-empty segments, the
\* move of a sequence into itself among them, runs to completion
C24_MutationsAreTotal == [][IsMutation(call'.op) => ~threw']_vars

\* the binding that rendered the attribute of the elements bound at the
\* rendered path last: the last one of its list
Rendered(attribute) ==
    /\ RenderPath \in DOMAIN bindings
    /\ attribute \in DOMAIN bindings[RenderPath]
    /\ bindings[RenderPath][attribute] # <<>>

LastBinding(attribute) ==
    bindings[RenderPath][attribute][Len(bindings[RenderPath][attribute])]

\* the value the last binding of the attribute shows
Shown(attribute) ==
    ModifiedValue(LastBinding(attribute).options, get(data, RenderPath, FALSE))

FirstConfigured(options, value) ==
    IF "valueTransformer" \in DOMAIN options THEN transformedValue(value)
    ELSE IF "boolean" \in DOMAIN options THEN Bool(Truthy(value))
    ELSE IF "negateBoolean" \in DOMAIN options THEN Bool(~Truthy(value))
    ELSE IF "booleanCondition" \in DOMAIN options
         THEN Bool(StrictEquals(value, options.booleanCondition))
    ELSE IF "negateBooleanCondition" \in DOMAIN options
         THEN Bool(~StrictEquals(value, options.negateBooleanCondition))
    ELSE value

\* C26: the value property of an element bound at a path shows the value of
\* the path under the first transform its binding configures:
\* booleanCondition = c shows true exactly when the value equals c, whatever
\* c is
C26_FirstConfiguredTransform ==
    Rendered("value") =>
        dom[LastBinding("value").element].props["value"]
            = FirstConfigured(LastBinding("value").options,
                              get(data, RenderPath, FALSE))

ProperPrefixes(path) ==
    {Join(SubSeq(Split(path), 1, i)) : i \in 1..(Len(Split(path)) - 1)}

\* C28: after a set that changed the document every path above the requested
\* path is a mapping or a sequence, those that were missing or held a value
\* that is neither among them, and no observer or element is told of a
\* change at one of these paths
C28_IntermediatesAreComposite ==
    (call.op = "set" /\ ret.t = "string") =>
        \A prefix \in ProperPrefixes(call.path) :
            /\ isObject(get(data, prefix, TRUE))
            /\ \A i \in 1..Len(notes) : notes[i].path # prefix
            /\ \A i \in 1..Len(log) : log[i].changedPath # Str(prefix)

\* a set below the string at a.b, which put a mapping in its place, told to
\* an observer of a.b as a change at a.b.0
C28_Witness ==
    /\ call.op = "set"
    /\ call.path = "a.b.0"
    /\ get(data, "a.b", TRUE) = Obj([j \in {"0"} |-> call.value])
    /\ \E i \in 1..Len(log) : /\ log[i].kind = "observer"
                              /\ log[i].path = Str("a.b")
                              /\ log[i].changedPath = Str("a.b.0")

\* the action C29 gives a set that returns the path: create when get of that
\* path, asked for undefined, was undefined in the document before the call
ActionFor(before, path) ==
    IF get(before, path, TRUE).t = "undefined" THEN "create" ELSE "update"

\* C29: a set that changed the document notifies with the action create
\* exactly when get of the returned path was undefined before the call and
\* with update otherwise, and the observers of the path, of the paths above
\* and of the root are all called with that action
C29_CreateExactlyWhenAbsent ==
    [][(call'.op = "set" /\ ret'.t = "string") =>
            /\ \A i \in 1..Len(notes') : notes'[i].action = ActionFor(data, ret'.p)
            /\ \A i \in 1..Len(log') :
                   log'[i].kind = "observer" => log'[i].action = ActionFor(data, ret'.p)]_vars

\* the path an observer stored under key is called with
ObserveNull(key) == IF key = "null" THEN Null ELSE Str(key)

\* C30: a set of a mapping or a sequence writes it and notifies, whatever
\* the path holds: a value built for the call, equal or not to what is
\* stored, and the object taken from the path itself
C30_CompositeSetAlwaysNotifies ==
    (call.op = "set" /\ isObject(call.value)) =>
        /\ ret = Str(call.path)
        /\ get(data, call.path, FALSE) = call.value
        /\ Len(notes) > 0
        /\ \A key \in {"null", call.path} :
               key \in DOMAIN observables =>
                   \A i \in 1..Len(observables[key]) :
                       \E j \in 1..Len(log) : /\ log[j].kind = "observer"
                                              /\ log[j].path = ObserveNull(key)
                                              /\ log[j].callback = observables[key][i].callback

\* the calls of the observers stored under key that the last call made
CallsOf(key) ==
    SelectSeq(log, LAMBDA e : e.kind = "observer" /\ e.path = ObserveNull(key))

\* C31: delete(P) calls every observer of a path above P and every observer
\* of the root once, with the action delete, P as the changed path and the
\* value of the observed path read after the removal
C31_DeleteNotifiesAncestors ==
    call.op = "delete" =>
        \A key \in ProperPrefixes(call.path) \cup {"null"} :
            key \in DOMAIN observables =>
                /\ Len(CallsOf(key)) = Len(observables[key])
                /\ \A i \in 1..Len(CallsOf(key)) :
                       /\ CallsOf(key)[i].callback = observables[key][i].callback
                       /\ CallsOf(key)[i].action = "delete"
                       /\ CallsOf(key)[i].changedPath = Str(call.path)
                       /\ CallsOf(key)[i].value =
                              get(data, IF key = "null" THEN "" ELSE key, FALSE)

\* delete("a.b") told to an observer of a and to an observer of the root,
\* each with the mapping that no longer has b
C31_Witness ==
    /\ call.op = "delete"
    /\ call.path = "a.b"
    /\ Len(CallsOf("a")) = 1
    /\ Len(CallsOf("null")) = 1
    /\ CallsOf("a")[1].value = EmptyObj
    /\ CallsOf("null")[1].action = "delete"

\* the two-way bindings of an element with a valueTransformer, as pairs of
\* path and binding, and whether the element shows what each of them pushed
\* from the primitive value its path holds
TransformBindings(element) ==
    {pair \in (DOMAIN bindings) \X (1..MaxRegistered) :
        /\ "value" \in DOMAIN bindings[pair[1]]
        /\ pair[2] <= Len(bindings[pair[1]]["value"])
        /\ bindings[pair[1]]["value"][pair[2]].element = element
        /\ bindings[pair[1]]["value"][pair[2]].options.twoways
        /\ HasValueTransformer(bindings[pair[1]]["value"][pair[2]].options)}

ShowsPushedValue(element) ==
    /\ TransformBindings(element) # {}
    /\ \A pair \in TransformBindings(element) :
           /\ IsPrimitiveOrNull(get(data, pair[1], FALSE))
           /\ dom[element].props["value"] = transformedValue(get(data, pair[1], FALSE))

\* C32: an event on a two-way bound element that still shows the value its
\* valueTransformer made of the primitive value of the path reads that value
\* back: the document stays as it is, no element is written and no observer
\* is called
C32_RoundTripEventIsNoOp ==
    [][(call'.op = "fire" /\ ShowsPushedValue(call'.element)) =>
            /\ data' = data
            /\ dom' = dom
            /\ notes' = <<>>
            /\ \A i \in 1..Len(log') : log'[i].kind \notin {"bind", "observer"}]_vars

\* an event on an element that shows "$z" for the "z" at a.b, with an
\* observer of a.b: set was called with "z" and returned nothing
C32_Witness ==
    /\ call.op = "fire"
    /\ ShowsPushedValue("e1")
    /\ get(data, "a.b", FALSE) = Str("z")
    /\ dom["e1"].props["value"] = Str("$z")
    /\ "a.b" \in DOMAIN observables
    /\ \E i \in 1..Len(log) : /\ log[i].kind = "set"
                              /\ log[i].value = Str("z")
                              /\ log[i].changedPath = Undefined

C34_DeleteOfAbsentPathKeepsDocument ==
    [][(call'.op = "delete" /\ get(data, call'.path, TRUE).t = "undefined") =>
            data' = data]_vars

\* a value whose sequences, at every depth, hold a value at every index
RECURSIVE Dense(_)
Dense(v) ==
    CASE v.t = "array" ->
            /\ \A i \in 1..Len(v.s) : v.s[i].t # "undefined" /\ Dense(v.s[i])
            /\ \A k \in DOMAIN v.x : Dense(v.x[k])
      [] v.t = "object" -> \A k \in DOMAIN v.m : Dense(v.m[k])
      [] OTHER -> TRUE

\* C35: after any calls of set, move and delete every sequence of the
\* document holds a value at each index below its length, those that a path
\* of set passes through among them
C35_SequencesStayDense == Dense(data)

\* the handlers attached to elements and the handlers of the bindings in the
\* registry, each with its element, event, path and attribute
Attached ==
    UNION {{<<e, dom[e].listeners[i].handler, dom[e].listeners[i].event,
              dom[e].listeners[i].path, dom[e].listeners[i].attribute>> :
                i \in 1..Len(dom[e].listeners)} :
              e \in DOMAIN dom}

InRegistry ==
    UNION {UNION {{<<bindings[p][a][i].element, bindings[p][a][i].handler,
                     bindings[p][a][i].options.event, p, a>> :
                       i \in 1..Len(bindings[p][a])} :
                     a \in DOMAIN bindings[p]} :
              p \in DOMAIN bindings}

ListenerCount == Count([e \in DOMAIN dom |-> dom[e].listeners])

\* C36: whatever bind, unbind, unbindAll, delete, move and remove were
\* called, the handlers attached to elements are those of the bindings in
\* the registry, one listener for each binding
C36_ListenersMatchRegistry ==
    /\ Attached = InRegistry
    /\ ListenerCount = BindingCount(bindings)

\* unbind of an element bound twice at one path, which removed one binding
\* with its listener and left the other with its own
C36_Witness ==
    /\ call.op = "unbind"
    /\ BindingCount(bindings) = 1
    /\ ListenerCount = 1
    /\ \E i \in 1..Len(log) : log[i].kind = "detach"

\* the elements the last call wrote, with the values written, in order
Writes(events) ==
    LET written == SelectSeq(events, LAMBDA e : e.kind = "bind")
    IN  [i \in 1..Len(written) |->
            [element |-> written[i].element, value |-> written[i].value]]

\* C37: bind writes the value get finds at the path, null when there is
\* none, as the options of each binding transform it, to the element it binds
\* and to every element bound at the path and attribute before; it leaves
\* the document as it is and calls no observer
C37_BindPushesCurrentValue ==
    [][call'.op = "bind" =>
        LET list == bindings'[call'.path]["value"]
        IN  /\ Writes(log') =
                   [i \in 1..Len(list) |->
                       [element |-> list[i].element,
                        value |-> ModifiedValue(list[i].options,
                                                get(data, call'.path, FALSE))]]
            /\ dom'[call'.element].props["value"] =
                   ModifiedValue(list[Len(list)].options, get(data, call'.path, FALSE))
            /\ data' = data
            /\ observables' = observables
            /\ notes' = <<>>
            /\ \A i \in 1..Len(log') : log'[i].kind # "observer"]_vars

\* a second bind at the absent path d, with observers registered: both
\* bindings were written null
C37_Witness ==
    /\ call.op = "bind"
    /\ call.path = "d"
    /\ Len(bindings["d"]["value"]) = 2
    /\ Len(Writes(log)) = 2
    /\ Writes(log)[1].value = Null
    /\ dom["e1"].props["value"] = Null
    /\ Count(observables) > 0

\* the paths whose values are compared before and after a set
FramePaths == {"a", "a.b", "a.b.0", "a.b.k", "c", "c.0", "c.1", "c.2", "c.k"}

\* one path is the other or lies above it
IsPrefix(short, long) ==
    /\ Len(Split(short)) <= Len(Split(long))
    /\ SubSeq(Split(long), 1, Len(Split(short))) = Split(short)

OnOnePath(p, q) == IsPrefix(p, q) \/ IsPrefix(q, p)

\* C38: a set that returns the path P leaves both registries as they were
\* and the document the same at every path that is not P, not above P and
\* not below P; the other elements of a sequence keep index and value
C38_SetFrame ==
    [][call'.op = "set" =>
        /\ bindings' = bindings
        /\ observables' = observables
        /\ IF ret'.t = "string"
           THEN \A q \in FramePaths :
                   ~OnOnePath(q, ret'.p) =>
                       Stored(data', Split(q)) = Stored(data, Split(q))
           ELSE data' = data]_vars

\* a set at an index beyond the end of c, with a binding and an observer
\* registered: the element appended at c.2, c.0 and c.1 as before
C38_Witness ==
    /\ call.op = "set"
    /\ call.path = "c.5"
    /\ ret = Str("c.2")
    /\ Stored(data, <<"c", "0">>).v = Str("x")
    /\ Stored(data, <<"c", "1">>).v = Str("y")
    /\ BindingCount(bindings) = 1
    /\ Count(observables) > 0

\* C39: an observer that is told of two changes of the document is told of
\* them in the order they were made, also when a callback made the second
\* while the first was being notified: the rounds of notify are numbered in
\* the order of their writes
C39_NotifiedInMutationOrder ==
    \A i \in 1..Len(log) : \A j \in i..Len(log) :
        (/\ log[i].kind = "observer"
         /\ log[j].kind = "observer"
         /\ log[i].path = log[j].path
         /\ log[i].callback = log[j].callback) => log[i].n <= log[j].n

\* the observers registered for the whole document, if any
RootObservers ==
    IF "null" \in DOMAIN observables THEN observables["null"] ELSE <<>>

\* C40: calls that name the top-level path "null" leave the observers of the
\* whole document alone: observe("null", f), unobserve("null") and
\* unobserveAll("n") leave their list as it is, and every set that changes
\* the document, set("null", v) too, calls each of them once, with the path
\* null and the whole document
C40_RootObserversDistinct ==
    [][/\ (call'.op = "observe" /\ call'.value = Str("null")) =>
              RootObservers' = RootObservers
       /\ call'.op \in {"unobserve", "unobserveAll"} => RootObservers' = RootObservers
       /\ (call'.op = "set" /\ ret'.t = "string") =>
              \A i \in 1..Len(RootObservers') :
                  LET calls == SelectSeq(log', LAMBDA e :
                                   /\ e.kind = "observer"
                                   /\ e.callback = RootObservers'[i].callback)
                  IN  /\ Len(calls) = 1
                      /\ calls[1].path = Null
                      /\ calls[1].value = data']_vars
====
